---- MODULE Spec2Model ----
(***************************************************************************)
(* Med-remind: the meal and workout forms (saveMeal, saveWorkout) and the  *)
(* health-storage module they write through (getDietEntries, addDietEntry, *)
(* getExerciseEntries, addExerciseEntry, the "today" and "this week"       *)
(* views, clearHealthData), over an AsyncStorage key-value provider.       *)
(*                                                                         *)
(* Every await on the provider is a suspension point: a storage call is    *)
(* issued by one action and answered (resolved or rejected) by another, so *)
(* calls that are in flight at the same time interleave.                   *)
(*                                                                         *)
(* Time is counted in hours.  A JavaScript number is a record [k, v] with  *)
(* k one of "fin", "inf", "ninf", "nan", "null", "undef".                  *)
(***************************************************************************)
EXTENDS Integers, Sequences, FiniteSets, TLC

VARIABLES
  store,    \* AsyncStorage: key -> stored text (or absent)
  calls,    \* call id -> the invocation's record (operation, position, locals)
  now,      \* the device clock, in hours since the epoch
  meal,     \* AddMealScreen's React state
  workout,  \* AddWorkoutScreen's React state
  hist      \* history of the run (read only by the properties)

vars == <<store, calls, now, meal, workout, hist>>

(***************************************************************************)
(* Bounds of the model.                                                    *)
(***************************************************************************)
MaxCalls == 2
MaxTicks == 1
MaxFoods == 2
MaxStored == 2
MaxTyped == 3
MaxExercises == 2

(***************************************************************************)
(* JavaScript numbers.                                                     *)
(***************************************************************************)
Fin(n) == [k |-> "fin", v |-> n]
PosInf == [k |-> "inf", v |-> 0]
NegInf == [k |-> "ninf", v |-> 0]
NaN == [k |-> "nan", v |-> 0]
JsNull == [k |-> "null", v |-> 0]
Undefined == [k |-> "undef", v |-> 0]

IsFinite(x) == x.k = "fin"

\* x + y on numbers (the + of calculateTotals)
JsPlus(x, y) ==
  IF x.k = "nan" \/ y.k = "nan" THEN NaN
  ELSE IF x.k = "fin" /\ y.k = "fin" THEN Fin(x.v + y.v)
  ELSE IF x.k = "fin" THEN y
  ELSE IF y.k = "fin" THEN x
  ELSE IF x.k = y.k THEN x
  ELSE NaN

\* x || dflt : x when truthy (0 and NaN are falsy)
JsOr(x, dflt) ==
  IF x.k = "nan" \/ x.k = "null" \/ x.k = "undef" \/ (x.k = "fin" /\ x.v = 0)
  THEN dflt ELSE x

(***************************************************************************)
(* Text typed into a TextInput: a tuple of one-character strings.          *)
(***************************************************************************)
Digits == {"0", "1", "2", "3", "4", "5", "6", "7", "8", "9"}

DigitValue ==
  ("0" :> 0) @@ ("1" :> 1) @@ ("2" :> 2) @@ ("3" :> 3) @@ ("4" :> 4) @@
  ("5" :> 5) @@ ("6" :> 6) @@ ("7" :> 7) @@ ("8" :> 8) @@ ("9" :> 9)

\* an integer literal of more than this many digits is beyond the largest double
MaxDoubleDigits == 309

\* the position of the first character of text that is not in set (Len + 1 if none)
FirstOutside(text, set) ==
  LET out == {i \in 1 .. Len(text) : text[i] \notin set}
  IN IF out = {} THEN Len(text) + 1
     ELSE CHOOSE i \in out : \A j \in out : i <= j

LastOutside(text, set) ==
  LET out == {i \in 1 .. Len(text) : text[i] \notin set}
  IN IF out = {} THEN 0
     ELSE CHOOSE i \in out : \A j \in out : i >= j

SkipSpaces(text) == SubSeq(text, FirstOutside(text, {" "}), Len(text))

\* text.trim()
Trim(text) ==
  SubSeq(text, FirstOutside(text, {" "}), LastOutside(text, {" "}))

DigitPrefix(text) == SubSeq(text, 1, FirstOutside(text, Digits) - 1)

SkipZeros(ds) == SubSeq(ds, FirstOutside(ds, {"0"}), Len(ds))

RECURSIVE DigitsValue(_)
DigitsValue(ds) ==
  IF ds = <<>> THEN 0
  ELSE 10 * DigitsValue(SubSeq(ds, 1, Len(ds) - 1)) + DigitValue[ds[Len(ds)]]

\* parseInt(text): leading blanks, an optional sign, the longest run of digits
ParseInt(text) ==
  LET t0 == SkipSpaces(text)
      neg == t0 # <<>> /\ Head(t0) = "-"
      t1 == IF t0 # <<>> /\ Head(t0) \in {"-", "+"} THEN Tail(t0) ELSE t0
      ds == DigitPrefix(t1)
      sig == SkipZeros(ds)
  IN IF ds = <<>> THEN NaN
     ELSE IF Len(sig) > MaxDoubleDigits THEN (IF neg THEN NegInf ELSE PosInf)
     ELSE Fin(IF neg THEN 0 - DigitsValue(sig) ELSE DigitsValue(sig))

\* n.toString() for an integer n >= 0
RECURSIVE NumToString(_)
NumToString(n) ==
  LET d == CHOOSE c \in Digits : DigitValue[c] = n % 10
  IN IF n < 10 THEN <<d>> ELSE NumToString(n \div 10) \o <<d>>

(***************************************************************************)
(* Dates.  An instant is a number of hours since the epoch (UTC); the      *)
(* device's zone is ahead of UTC by Zone.dst hours until the instant       *)
(* Zone.fallBack and by Zone.std hours from then on.  Calendar gives the   *)
(* local date of the epoch's day: day-of-month, month, weekday, and the    *)
(* length of that month.                                                   *)
(***************************************************************************)
HoursPerDay == 24
DaysPerWeek == 7

Zone == [std |-> 1, dst |-> 2, fallBack |-> 8 * HoursPerDay + 1]
Calendar == [dom |-> 18, month |-> 9, weekday |-> 6, monthLen |-> 31]

InvalidDate == [valid |-> FALSE, t |-> 0]
DateOf(t) == [valid |-> TRUE, t |-> t]

\* date.toISOString(): the UTC day and hour
ToISOString(t) == [ok |-> TRUE, d |-> t \div HoursPerDay, h |-> t % HoursPerDay]
GarbageString == [ok |-> FALSE, d |-> 0, h |-> 0]

\* new Date(string)
NewDate(s) ==
  IF s.ok /\ s.h \in 0 .. HoursPerDay - 1
  THEN DateOf(s.d * HoursPerDay + s.h) ELSE InvalidDate

TzOffset(t) == IF t < Zone.fallBack THEN Zone.dst ELSE Zone.std
LocalWall(t) == t + TzOffset(t)
\* the instant of a local wall-clock hour (the earlier one when it occurs twice)
LocalToUTC(w) ==
  IF w - Zone.dst < Zone.fallBack THEN w - Zone.dst ELSE w - Zone.std

LocalDay(t) == LocalWall(t) \div HoursPerDay
GetHours(t) == LocalWall(t) % HoursPerDay
GetDay(t) == (Calendar.weekday + LocalDay(t)) % DaysPerWeek
GetMonth(t) ==
  IF Calendar.dom + LocalDay(t) <= Calendar.monthLen
  THEN Calendar.month ELSE Calendar.month + 1
GetDate(t) ==
  IF Calendar.dom + LocalDay(t) <= Calendar.monthLen
  THEN Calendar.dom + LocalDay(t)
  ELSE Calendar.dom + LocalDay(t) - Calendar.monthLen

\* local day number of day 1 of month m
FirstOfMonth(m) ==
  IF m = Calendar.month THEN 1 - Calendar.dom
  ELSE Calendar.monthLen + 1 - Calendar.dom

\* date.setDate(k): day k of the date's month (k may lie outside the month),
\* the local time of day kept
SetDate(t, k) ==
  LocalToUTC((FirstOfMonth(GetMonth(t)) + k - 1) * HoursPerDay + GetHours(t))

\* date.setHours(0, 0, 0, 0)
SetHoursZero(t) == LocalToUTC(LocalDay(t) * HoursPerDay)

\* date.toDateString(): weekday, month, day of the local date
ToDateString(date) ==
  IF date.valid
  THEN [valid |-> TRUE, wd |-> GetDay(date.t), mon |-> GetMonth(date.t),
        dom |-> GetDate(date.t)]
  ELSE [valid |-> FALSE, wd |-> 0, mon |-> 0, dom |-> 0]

(***************************************************************************)
(* JSON.  A stored text is modelled by the value it denotes.  A text that  *)
(* is an array of entries has kind "array"; "other" is valid JSON that is  *)
(* no array (such as {} or null); "malformed" is no JSON at all; "empty"   *)
(* is the empty string; "absent" is what getItem answers for a missing key *)
(* (null).                                                                 *)
(***************************************************************************)
Text(kind, items) == [kind |-> kind, items |-> items]
Absent == Text("absent", <<>>)

Array(items) == [kind |-> "array", items |-> items]
NonArray == [kind |-> "other", items |-> <<>>]
Void == [kind |-> "void", items |-> <<>>]

Returned(val) == [threw |-> FALSE, val |-> val]
Threw == [threw |-> TRUE, val |-> Void]

\* JSON.stringify of a number: NaN and the infinities are written as null
StringifyNumber(x) == IF x.k \in {"inf", "ninf", "nan"} THEN JsNull ELSE x

StringifyFood(f) ==
  [name |-> f.name, calories |-> StringifyNumber(f.calories),
   protein |-> StringifyNumber(f.protein), carbs |-> StringifyNumber(f.carbs),
   fat |-> StringifyNumber(f.fat)]

StringifyExercise(x) ==
  [name |-> x.name, sets |-> StringifyNumber(x.sets),
   reps |-> StringifyNumber(x.reps), weight |-> StringifyNumber(x.weight),
   duration |-> StringifyNumber(x.duration),
   distance |-> StringifyNumber(x.distance)]

\* JSON.stringify of one element of the array
StringifyEntry(e) ==
  IF "foods" \in DOMAIN e
  THEN [id |-> e.id, date |-> e.date, mealType |-> e.mealType,
        foods |-> [i \in 1 .. Len(e.foods) |-> StringifyFood(e.foods[i])],
        totalCalories |-> StringifyNumber(e.totalCalories),
        totalProtein |-> StringifyNumber(e.totalProtein),
        totalCarbs |-> StringifyNumber(e.totalCarbs),
        totalFat |-> StringifyNumber(e.totalFat)]
  ELSE IF "exercises" \in DOMAIN e
  THEN [id |-> e.id, date |-> e.date, type |-> e.type,
        exercises |->
          [i \in 1 .. Len(e.exercises) |-> StringifyExercise(e.exercises[i])],
        duration |-> StringifyNumber(e.duration),
        caloriesBurned |-> StringifyNumber(e.caloriesBurned)]
  ELSE e

\* JSON.stringify(entries)
Stringify(entries) ==
  Text("array", [i \in 1 .. Len(entries) |-> StringifyEntry(entries[i])])

\* JSON.parse(data)
JsonParse(data) ==
  IF data.kind = "array" THEN Returned(Array(data.items))
  ELSE IF data.kind = "other" THEN Returned(NonArray)
  ELSE Threw

(***************************************************************************)
(* health-storage: the bodies of the exported functions, as functions of   *)
(* the provider's answer.  An answer is [rejected, data].                  *)
(***************************************************************************)
DIET_KEY == "@diet_entries"
EXERCISE_KEY == "@exercise_entries"
Keys == {DIET_KEY, EXERCISE_KEY}

Resolved(data) == [rejected |-> FALSE, data |-> data]
Rejected == [rejected |-> TRUE, data |-> Absent]

\* variant: a catch block that rethrows
GetEntriesCatchRethrows == Threw

\* the catch block of getDietEntries / getExerciseEntries: return []
GetEntriesCatch == Returned(Array(<<>>))

\* getDietEntries / getExerciseEntries, from the answer of getItem
GetEntries(answer) ==
  IF answer.rejected THEN GetEntriesCatch
  ELSE IF answer.data.kind \in {"absent", "empty"} THEN Returned(Array(<<>>))
  ELSE IF JsonParse(answer.data).threw THEN GetEntriesCatch
  ELSE JsonParse(answer.data)

\* entries.push(entry): a TypeError when entries is no array
Push(entries, entry) ==
  IF entries.threw \/ entries.val.kind # "array" THEN Threw
  ELSE Returned(Array(Append(entries.val.items, entry)))

\* entry.date of a stored element: a TypeError on null, undefined when missing
HasDate(e) == "date" \in DOMAIN e
DateField(e) == IF HasDate(e) THEN e.date ELSE GarbageString
TypeField(e) == IF "type" \in DOMAIN e THEN e.type ELSE "undefined"

\* variant: the day compared in UTC
IsTodayUTC(e, t) ==
  /\ NewDate(DateField(e)).valid
  /\ NewDate(DateField(e)).t \div HoursPerDay = t \div HoursPerDay

\* the filter callback of getTodaysDietEntries / getTodaysExerciseEntries
IsToday(e, t) == ToDateString(NewDate(DateField(e))) = ToDateString(DateOf(t))

\* the catch block of the two "today" views: return []
GetTodaysCatch == Returned(Array(<<>>))

\* getTodaysDietEntries / getTodaysExerciseEntries, from the answer of getItem
\* and the clock reading t taken after it
GetTodaysEntries(answer, t) ==
  LET entries == GetEntries(answer)
  IN IF entries.threw \/ entries.val.kind # "array" THEN GetTodaysCatch
     ELSE IF \E i \in 1 .. Len(entries.val.items) : entries.val.items[i] = JsNull
     THEN GetTodaysCatch
     ELSE Returned(Array(SelectSeq(entries.val.items, LAMBDA e : IsToday(e, t))))

\* variant: weekStart without setHours(0, 0, 0, 0)
WeekStartKeepsHours(t) == SetDate(t, GetDate(t) - GetDay(t))

\* weekStart and weekEnd of getWeeklyExerciseProgress
WeekStart(t) == SetHoursZero(SetDate(t, GetDate(t) - GetDay(t)))
\* variant: a week that ends a day after it starts
WeekEndNextDay(t) == SetDate(WeekStart(t), GetDate(WeekStart(t)) + 1)

WeekEnd(t) == SetDate(WeekStart(t), GetDate(WeekStart(t)) + DaysPerWeek)

\* variant: the end of the week taken inclusive
InWeekInclusive(e, t) ==
  /\ NewDate(DateField(e)).valid
  /\ NewDate(DateField(e)).t >= WeekStart(t)
  /\ NewDate(DateField(e)).t <= WeekEnd(t)

\* the filter callback of getWeeklyExerciseProgress
InWeek(e, t) ==
  /\ NewDate(DateField(e)).valid
  /\ NewDate(DateField(e)).t >= WeekStart(t)
  /\ NewDate(DateField(e)).t < WeekEnd(t)

Counts(s, c, w, f) ==
  [kind |-> "counts", strength |-> s, cardio |-> c, walking |-> w,
   flexibility |-> f]

\* variant: a catch block that rethrows
WeeklyCatchRethrows == Threw

\* the catch block of getWeeklyExerciseProgress: all four counts 0
WeeklyCatch == Returned(Counts(0, 0, 0, 0))

\* variant: every entry counted under every type
CountTypeAny(items, type) == Len(items)

\* weeklyEntries.filter((entry) => entry.type === type).length
CountType(items, type) == Len(SelectSeq(items, LAMBDA e : TypeField(e) = type))

\* getWeeklyExerciseProgress, from the answer of getItem and the clock reading
GetWeeklyExerciseProgress(answer, t) ==
  LET entries == GetEntries(answer)
  IN IF entries.threw \/ entries.val.kind # "array" THEN WeeklyCatch
     ELSE IF \E i \in 1 .. Len(entries.val.items) : entries.val.items[i] = JsNull
     THEN WeeklyCatch
     ELSE LET weeklyEntries ==
                SelectSeq(entries.val.items, LAMBDA e : InWeek(e, t))
          IN Returned(Counts(CountType(weeklyEntries, "strength"),
                             CountType(weeklyEntries, "cardio"),
                             CountType(weeklyEntries, "walking"),
                             CountType(weeklyEntries, "flexibility")))

\* variant: a catch block that logs and returns
AddCatchSwallows == Returned(Void)

\* the catch blocks of addDietEntry / addExerciseEntry and of clearHealthData:
\* log and rethrow
AddCatch == Threw
ClearCatch == Threw

\* variant: a write that lands under every key
SetItemEveryKey(st, key, text) == [k \in DOMAIN st |-> text]

\* AsyncStorage.setItem and AsyncStorage.multiRemove, when they resolve
SetItem(st, key, text) == [st EXCEPT ![key] = text]
MultiRemove(st, keys) == [k \in DOMAIN st |-> IF k \in keys THEN Absent ELSE st[k]]

\* variant: a reset that forgets the exercise key
ClearKeysDietOnly == {DIET_KEY}

\* the keys clearHealthData removes
ClearKeys == {DIET_KEY, EXERCISE_KEY}

(***************************************************************************)
(* The forms.                                                              *)
(***************************************************************************)
\* variant: a fifth meal type button
MEAL_TYPES_WithBrunch == {"breakfast", "lunch", "dinner", "snacks", "brunch"}

MEAL_TYPES == {"breakfast", "lunch", "dinner", "snacks"}
EXERCISE_TYPES == {"strength", "cardio", "walking", "flexibility"}

Food(name, calories, protein, carbs, fat) ==
  [name |-> name, calories |-> calories, protein |-> protein, carbs |-> carbs,
   fat |-> fat]
EmptyFood == Food(<<>>, Fin(0), Fin(0), Fin(0), Fin(0))

Exercise(name) ==
  [name |-> name, sets |-> Undefined, reps |-> Undefined, weight |-> Undefined,
   duration |-> Undefined, distance |-> Undefined]

\* calculateTotals: foodItems.reduce from {0, 0, 0, 0}, left to right
RECURSIVE CalculateTotals(_)
CalculateTotals(foodItems) ==
  IF foodItems = <<>> THEN Food(<<>>, Fin(0), Fin(0), Fin(0), Fin(0))
  ELSE LET acc == CalculateTotals(SubSeq(foodItems, 1, Len(foodItems) - 1))
           item == foodItems[Len(foodItems)]
       IN Food(<<>>, JsPlus(acc.calories, item.calories),
               JsPlus(acc.protein, item.protein), JsPlus(acc.carbs, item.carbs),
               JsPlus(acc.fat, item.fat))

\* the entry saveMeal hands to addDietEntry
MealEntry(m, t) ==
  [id |-> NumToString(t), date |-> ToISOString(t), mealType |-> m.selectedMealType,
   foods |-> m.foodItems,
   totalCalories |-> CalculateTotals(m.foodItems).calories,
   totalProtein |-> CalculateTotals(m.foodItems).protein,
   totalCarbs |-> CalculateTotals(m.foodItems).carbs,
   totalFat |-> CalculateTotals(m.foodItems).fat]

\* Math.round(duration * 5)
CALORIES_PER_MINUTE == 5
CaloriesBurned(duration) ==
  IF duration.k = "fin" THEN Fin(duration.v * CALORIES_PER_MINUTE) ELSE duration

\* the entry saveWorkout hands to addExerciseEntry
WorkoutEntry(w, t) ==
  [id |-> NumToString(t), date |-> ToISOString(t), type |-> w.selectedType,
   exercises |-> w.exercises, duration |-> ParseInt(w.workoutDuration),
   caloriesBurned |-> CaloriesBurned(ParseInt(w.workoutDuration))]

\* saveWorkout's checks before the store is touched
WorkoutRejected(w) ==
  \/ Len(w.exercises) = 0
  \/ Trim(w.workoutDuration) = <<>>
  \/ ParseInt(w.workoutDuration).k = "nan"
  \/ (ParseInt(w.workoutDuration).k = "fin" /\ ParseInt(w.workoutDuration).v <= 0)
  \/ ParseInt(w.workoutDuration).k = "ninf"

\* variant: the Success notice whatever the add call did
SaveNoticeAlwaysSuccess(ret) == "Success"

\* the notice a save shows for the outcome of its add call
SaveNotice(ret) == IF ret.threw THEN "Failed" ELSE "Success"

(***************************************************************************)
(* Invocations.  A call record holds the operation, the await it is        *)
(* suspended at (pc), the entry being added, the text handed to setItem,   *)
(* what the storage function returned or threw (ret), the Alert the form   *)
(* showed (notice), whether that Alert is still on the screen (open) and   *)
(* what getItem answered (saw).                                            *)
(***************************************************************************)
CallIds == 1 .. MaxCalls

IdleCall ==
  [op |-> "none", pc |-> "idle", key |-> DIET_KEY, entry |-> JsNull,
   pending |-> Absent, ret |-> Returned(Void), notice |-> "none", open |-> FALSE,
   saw |-> "none"]

AddOps == {"saveMeal", "saveWorkout"}
GetOps == {"getDietEntries", "getExerciseEntries"}
ViewOps == {"getTodaysDietEntries", "getTodaysExerciseEntries",
            "getWeeklyExerciseProgress"}

\* call ids are handed out in order
Free(p) == calls[p].pc = "idle" /\ \A q \in CallIds : q < p => calls[q].pc # "idle"

InFlight(c) == c.pc \in {"getItem", "setItem", "multiRemove"}

\* a read-modify-write of an add on key k is under way
Adding(c, k) == c.op \in AddOps /\ c.key = k /\ c.pc \in {"getItem", "setItem"}

Start(op, key, entry) ==
  [IdleCall EXCEPT !.op = op, !.pc = "getItem", !.key = key, !.entry = entry]

NoteIssue(k) ==
  [hist EXCEPT !.overlapped =
     hist.overlapped \/ \E q \in CallIds : Adding(calls[q], k)]

\* variant: the empty-list check of saveMeal left out
MealRejectedNever(m) == FALSE

\* saveMeal's check before the store is touched
MealRejected(m) == Len(m.foodItems) = 0

\* Save Meal pressed
SaveMeal(p) ==
  /\ Free(p)
  /\ IF MealRejected(meal)
     THEN /\ calls' = [calls EXCEPT ![p] =
                 [IdleCall EXCEPT !.op = "saveMeal", !.pc = "done", !.notice = "Error",
                                  !.open = TRUE]]
          /\ hist' = hist
     ELSE /\ calls' = [calls EXCEPT ![p] = Start("saveMeal", DIET_KEY, MealEntry(meal, now))]
          /\ hist' = NoteIssue(DIET_KEY)
  /\ UNCHANGED <<store, now, meal, workout>>

\* Save Workout pressed
SaveWorkout(p) ==
  /\ Free(p)
  /\ IF WorkoutRejected(workout)
     THEN /\ calls' = [calls EXCEPT ![p] =
                 [IdleCall EXCEPT !.op = "saveWorkout", !.pc = "done", !.notice = "Error",
                                  !.open = TRUE]]
          /\ hist' = hist
     ELSE /\ calls' = [calls EXCEPT ![p] =
                 Start("saveWorkout", EXERCISE_KEY, WorkoutEntry(workout, now))]
          /\ hist' = NoteIssue(EXERCISE_KEY)
  /\ UNCHANGED <<store, now, meal, workout>>

\* one of the five read functions is called
CallRead(p, op) ==
  /\ Free(p)
  /\ calls' = [calls EXCEPT ![p] =
        Start(op, IF op \in {"getDietEntries", "getTodaysDietEntries"}
                  THEN DIET_KEY ELSE EXERCISE_KEY, JsNull)]
  /\ UNCHANGED <<store, now, meal, workout, hist>>

\* clearHealthData is called
ClearHealthData(p) ==
  /\ Free(p)
  /\ calls' = [calls EXCEPT ![p] =
        [IdleCall EXCEPT !.op = "clearHealthData", !.pc = "multiRemove"]]
  /\ UNCHANGED <<store, now, meal, workout, hist>>

\* the code that runs when the awaited getItem is answered
AfterGetItem(c, answer, t) ==
  LET seen == [c EXCEPT !.saw = IF answer.rejected THEN "rejected" ELSE answer.data.kind]
  IN IF c.op \in AddOps
     THEN LET r == Push(GetEntries(answer), c.entry)
          IN IF r.threw
             THEN [seen EXCEPT !.pc = "done", !.ret = AddCatch,
                               !.notice = SaveNotice(AddCatch), !.open = TRUE]
             ELSE [seen EXCEPT !.pc = "setItem", !.pending = Stringify(r.val.items)]
     ELSE IF c.op \in GetOps
     THEN [seen EXCEPT !.pc = "done", !.ret = GetEntries(answer)]
     ELSE IF c.op \in {"getTodaysDietEntries", "getTodaysExerciseEntries"}
     THEN [seen EXCEPT !.pc = "done", !.ret = GetTodaysEntries(answer, t)]
     ELSE [seen EXCEPT !.pc = "done", !.ret = GetWeeklyExerciseProgress(answer, t)]

GetItemResolves(p) ==
  /\ calls[p].pc = "getItem"
  /\ calls' = [calls EXCEPT ![p] = AfterGetItem(calls[p], Resolved(store[calls[p].key]), now)]
  /\ UNCHANGED <<store, now, meal, workout, hist>>

GetItemRejects(p) ==
  /\ calls[p].pc = "getItem"
  /\ calls' = [calls EXCEPT ![p] = AfterGetItem(calls[p], Rejected, now)]
  /\ hist' = [hist EXCEPT !.rejected = TRUE]
  /\ UNCHANGED <<store, now, meal, workout>>

\* the code that runs when the awaited setItem is answered
AfterSetItem(c, rejected) ==
  IF rejected
  THEN [c EXCEPT !.pc = "done", !.ret = AddCatch, !.notice = SaveNotice(AddCatch),
                 !.open = TRUE]
  ELSE [c EXCEPT !.pc = "done", !.ret = Returned(Void),
                 !.notice = SaveNotice(Returned(Void)), !.open = TRUE]

SetItemResolves(p) ==
  /\ calls[p].pc = "setItem"
  /\ store' = SetItem(store, calls[p].key, calls[p].pending)
  /\ calls' = [calls EXCEPT ![p] = AfterSetItem(calls[p], FALSE)]
  /\ hist' = [hist EXCEPT !.added =
        IF calls[p].key = DIET_KEY /\ ~AfterSetItem(calls[p], FALSE).ret.threw
        THEN Append(hist.added, calls[p].entry) ELSE hist.added]
  /\ UNCHANGED <<now, meal, workout>>

SetItemRejects(p) ==
  /\ calls[p].pc = "setItem"
  /\ calls' = [calls EXCEPT ![p] = AfterSetItem(calls[p], TRUE)]
  /\ hist' = [hist EXCEPT !.rejected = TRUE]
  /\ UNCHANGED <<store, now, meal, workout>>

\* the code that runs when the awaited multiRemove is answered
AfterMultiRemove(c, rejected) ==
  IF rejected THEN [c EXCEPT !.pc = "done", !.ret = ClearCatch]
  ELSE [c EXCEPT !.pc = "done", !.ret = Returned(Void)]

MultiRemoveResolves(p) ==
  /\ calls[p].pc = "multiRemove"
  /\ store' = MultiRemove(store, ClearKeys)
  /\ calls' = [calls EXCEPT ![p] = AfterMultiRemove(calls[p], FALSE)]
  /\ hist' = [hist EXCEPT !.cleared = TRUE]
  /\ UNCHANGED <<now, meal, workout>>

MultiRemoveRejects(p) ==
  /\ calls[p].pc = "multiRemove"
  /\ calls' = [calls EXCEPT ![p] = AfterMultiRemove(calls[p], TRUE)]
  /\ hist' = [hist EXCEPT !.rejected = TRUE]
  /\ UNCHANGED <<store, now, meal, workout>>

(***************************************************************************)
(* The clock.                                                              *)
(***************************************************************************)
FirstNow == 7 * HoursPerDay

Tick ==
  /\ now < FirstNow + MaxTicks
  /\ now' = now + 1
  /\ UNCHANGED <<store, calls, meal, workout, hist>>

(***************************************************************************)
(* Spec: the storage calls of filled-in forms, interleaved.  The forms     *)
(* hold one of a few contents and stay as they are; the store starts       *)
(* absent, unreadable, or with an entry saved earlier.                     *)
(***************************************************************************)
Rice == <<"r", "i", "c", "e">>
Run == <<"r", "u", "n">>
LongDigits == [i \in 1 .. MaxDoubleDigits + 1 |-> "9"]

MealForm(type, foods) ==
  [selectedMealType |-> type, foodItems |-> foods, currentFood |-> EmptyFood]
WorkoutForm(type, exercises, duration) ==
  [selectedType |-> type, exercises |-> exercises,
   currentExercise |-> Exercise(<<>>), workoutDuration |-> duration]

MealPool ==
  {MealForm("lunch", <<Food(Rice, Fin(2), Fin(1), Fin(0), Fin(3))>>),
   MealForm("dinner", <<Food(Rice, ParseInt(LongDigits), Fin(1), Fin(0), Fin(3))>>)}
WorkoutPool == {WorkoutForm("cardio", <<Exercise(Run)>>, <<"3", "0">>)}

OldMeal == MealEntry(MealForm("breakfast", <<Food(Rice, Fin(4), Fin(0), Fin(0), Fin(0))>>),
                     FirstNow - 1)
OldWorkout == WorkoutEntry(WorkoutForm("walking", <<Exercise(Run)>>, <<"9">>), FirstNow - 1)

InitStores ==
  {[k \in Keys |-> Absent], [k \in Keys |-> Text("empty", <<>>)],
   [k \in Keys |-> Text("malformed", <<>>)], [k \in Keys |-> Text("other", <<>>)],
   [k \in Keys |-> Stringify(<<IF k = DIET_KEY THEN OldMeal ELSE OldWorkout>>)]}

InitHist(st) ==
  [start |-> st, rejected |-> FALSE, cleared |-> FALSE,
   overlapped |-> FALSE, added |-> <<>>, typed |-> 0]

Init ==
  /\ store \in InitStores
  /\ calls = [p \in CallIds |-> IdleCall]
  /\ now = FirstNow
  /\ meal \in MealPool
  /\ workout \in WorkoutPool
  /\ hist = InitHist(store)

Next ==
  \/ \E p \in CallIds : SaveMeal(p)
  \/ \E p \in CallIds : SaveWorkout(p)
  \/ \E p \in CallIds, op \in GetOps : CallRead(p, op)
  \/ \E p \in CallIds : ClearHealthData(p)
  \/ \E p \in CallIds : GetItemResolves(p)
  \/ \E p \in CallIds : GetItemRejects(p)
  \/ \E p \in CallIds : SetItemResolves(p)
  \/ \E p \in CallIds : SetItemRejects(p)
  \/ \E p \in CallIds : MultiRemoveResolves(p)
  \/ \E p \in CallIds : MultiRemoveRejects(p)
  \/ Tick

Spec == Init /\ [][Next]_vars

(***************************************************************************)
(* SpecViews: the two "today" views and the weekly progress applied to a   *)
(* stored list and a clock reading.  The stored elements are dated         *)
(* relative to the clock reading: 24 hours before it, at the start of its  *)
(* local day, at it, and at and next to the two ends of its week; an       *)
(* element may also carry a date that does not parse, or be null.          *)
(***************************************************************************)
InitialMeal == MealForm("breakfast", <<>>)
InitialWorkout == WorkoutForm("strength", <<>>, <<>>)

\* the clock readings tried: every hour of the day the clocks are set back,
\* and midnight, noon and 23:00 of the days around it up to the month's end
NowRange ==
  {t \in FirstNow .. FirstNow + 8 * HoursPerDay :
     LocalDay(t) = LocalDay(Zone.fallBack) \/ GetHours(t) \in {0, 12, 23}}

StoredDates(t) ==
  {t - HoursPerDay, SetHoursZero(t), t, WeekStart(t), WeekStart(t) - 1,
   WeekEnd(t), WeekEnd(t) - 1}

Elements(t) ==
  {[kind |-> "dated", t |-> d] : d \in StoredDates(t)}
    \cup {[kind |-> "garbage", t |-> 0], [kind |-> "null", t |-> 0]}

Lists(t) == UNION {[1 .. n -> Elements(t)] : n \in 0 .. MaxStored}

TypeOrder == <<"strength", "cardio", "walking", "flexibility">>
\* the types of a stored list: by turns from strength (0) or from walking (2),
\* or cardio throughout (5)
TypePatterns == {0, 2, 5}
TypeAt(pattern, i) ==
  IF pattern < Len(TypeOrder)
  THEN TypeOrder[((pattern + i - 1) % Len(TypeOrder)) + 1]
  ELSE TypeOrder[pattern - Len(TypeOrder) + 1]

StoredMeal(el) ==
  IF el.kind = "null" THEN JsNull
  ELSE IF el.kind = "garbage" THEN [OldMeal EXCEPT !.date = GarbageString]
  ELSE [OldMeal EXCEPT !.id = NumToString(el.t), !.date = ToISOString(el.t)]

StoredWorkout(el, type) ==
  IF el.kind = "null" THEN JsNull
  ELSE IF el.kind = "garbage"
  THEN [OldWorkout EXCEPT !.date = GarbageString, !.type = type]
  ELSE [OldWorkout EXCEPT !.id = NumToString(el.t), !.date = ToISOString(el.t),
                           !.type = type]

StoreOf(list, pattern) ==
  [k \in Keys |->
     IF k = DIET_KEY
     THEN Stringify([i \in 1 .. Len(list) |-> StoredMeal(list[i])])
     ELSE Stringify([i \in 1 .. Len(list) |-> StoredWorkout(list[i], TypeAt(pattern, i))])]

ViewStores(t) ==
  {StoreOf(list, pattern) : list \in Lists(t), pattern \in TypePatterns}
    \cup InitStores

InitViews ==
  /\ now \in NowRange
  /\ store \in ViewStores(now)
  /\ calls = [p \in CallIds |-> IdleCall]
  /\ meal = InitialMeal
  /\ workout = InitialWorkout
  /\ hist = InitHist(store)

NextViews ==
  \/ \E op \in ViewOps : CallRead(1, op)
  \/ \E p \in CallIds : GetItemResolves(p)
  \/ \E p \in CallIds : GetItemRejects(p)

SpecViews == InitViews /\ [][NextViews]_vars

(***************************************************************************)
(* SpecMeal: AddMealScreen from its mounting: the fields are typed into,   *)
(* food items added and removed, the meal type chosen and Save Meal        *)
(* pressed once, over a store that starts absent and whose calls succeed.  *)
(***************************************************************************)
NameTexts == {Rice, <<" ">>}
NumberTexts == {<<"2">>, <<"-", "1">>, LongDigits}

\* parseInt(text) || 0
NumberOf(text) == JsOr(ParseInt(text), Fin(0))

\* an Alert is modal: the form takes no input while one is on the screen
FormEnabled == \A p \in CallIds : ~calls[p].open

\* one screen is mounted at a time, and a screen that is left loses its state:
\* a form is worked on only while the other one is in its initial state
MealScreenMounted == workout = InitialWorkout
WorkoutScreenMounted == meal = InitialMeal

\* onPress of a meal type button
SelectMealType(type) ==
  /\ FormEnabled /\ MealScreenMounted
  /\ meal' = [meal EXCEPT !.selectedMealType = type]
  /\ UNCHANGED <<store, calls, now, workout, hist>>

\* setCurrentFood({...currentFood, field: value})
SetCurrentFood(m, field, value) ==
  [m EXCEPT !.currentFood = [m.currentFood EXCEPT ![field] = value]]

\* onChangeText of an input of the form (at most MaxTyped of them in a run)
TypeInto(field, value) ==
  /\ FormEnabled /\ MealScreenMounted
  /\ hist.typed < MaxTyped
  /\ meal' = SetCurrentFood(meal, field, value)
  /\ hist' = [hist EXCEPT !.typed = hist.typed + 1]
  /\ UNCHANGED <<store, calls, now, workout>>

TypeName(text) == TypeInto("name", text)
TypeNumber(field, text) == TypeInto(field, NumberOf(text))

TypeCalories(text) == TypeNumber("calories", text)
TypeProtein(text) == TypeNumber("protein", text)
TypeCarbs(text) == TypeNumber("carbs", text)
TypeFat(text) == TypeNumber("fat", text)

\* Add Food Item pressed
AddFoodItem ==
  /\ FormEnabled /\ MealScreenMounted
  /\ Len(meal.foodItems) < MaxFoods
  /\ IF Trim(meal.currentFood.name) = <<>>
     THEN meal' = meal
     ELSE meal' = [meal EXCEPT !.foodItems = Append(meal.foodItems, meal.currentFood),
                               !.currentFood = EmptyFood]
  /\ UNCHANGED <<store, calls, now, workout, hist>>

\* foodItems with the element at index (from 0) spliced out
Splice(items, index) ==
  SubSeq(items, 1, index) \o SubSeq(items, index + 2, Len(items))

\* the remove button of the food item at index pressed
RemoveFoodItem(index) ==
  /\ FormEnabled /\ MealScreenMounted
  /\ index \in 0 .. Len(meal.foodItems) - 1
  /\ meal' = [meal EXCEPT !.foodItems = Splice(meal.foodItems, index)]
  /\ UNCHANGED <<store, calls, now, workout, hist>>

\* OK pressed on the Alert of a meal save: after Success router.back() leaves
\* the screen (its next mounting starts from the initial state); after an
\* error the form is as it was and Save Meal can be pressed again
DismissMealAlert(p) ==
  /\ calls[p].open /\ calls[p].op = "saveMeal"
  /\ IF calls[p].notice = "Success"
     THEN /\ meal' = InitialMeal
          /\ calls' = [calls EXCEPT ![p] = [calls[p] EXCEPT !.open = FALSE]]
     ELSE /\ meal' = meal
          /\ calls' = [calls EXCEPT ![p] = IdleCall]
  /\ UNCHANGED <<store, now, workout, hist>>

InitMeal ==
  /\ store = [k \in Keys |-> Absent]
  /\ calls = [p \in CallIds |-> IdleCall]
  /\ now = FirstNow
  /\ meal = InitialMeal
  /\ workout = InitialWorkout
  /\ hist = InitHist(store)

NextMeal ==
  \/ \E type \in MEAL_TYPES : SelectMealType(type)
  \/ \E text \in NameTexts : TypeName(text)
  \/ \E text \in NumberTexts : TypeCalories(text)
  \/ \E text \in NumberTexts : TypeProtein(text)
  \/ \E text \in NumberTexts : TypeCarbs(text)
  \/ \E text \in NumberTexts : TypeFat(text)
  \/ AddFoodItem
  \/ \E index \in 0 .. MaxFoods - 1 : RemoveFoodItem(index)
  \/ SaveMeal(1)
  \/ \E p \in CallIds : DismissMealAlert(p)
  \/ \E p \in CallIds : GetItemResolves(p)
  \/ \E p \in CallIds : SetItemResolves(p)

SpecMeal == InitMeal /\ [][NextMeal]_vars

(***************************************************************************)
(* SpecForms: the two Add screens from their mounting.  One screen is      *)
(* mounted at a time (a screen that is left loses its state), so a form is *)
(* worked on only while the other one is in its initial state.  The store  *)
(* starts absent and its calls succeed.                                    *)
(***************************************************************************)
ExerciseNames == {Run, <<" ">>}
DurationTexts ==
  {<<"1">>, <<"3", "0">>, <<"1", "2", "0">>, <<"0">>, <<"-", "1">>, <<"x">>,
   <<" ">>, LongDigits}

\* onPress of an exercise type button
SelectType(type) ==
  /\ FormEnabled /\ WorkoutScreenMounted
  /\ workout' = [workout EXCEPT !.selectedType = type]
  /\ UNCHANGED <<store, calls, now, meal, hist>>

\* onChangeText of the exercise name input
TypeExerciseName(text) ==
  /\ FormEnabled /\ WorkoutScreenMounted
  /\ hist.typed < MaxTyped
  /\ workout' = [workout EXCEPT !.currentExercise = [workout.currentExercise EXCEPT !.name = text]]
  /\ hist' = [hist EXCEPT !.typed = hist.typed + 1]
  /\ UNCHANGED <<store, calls, now, meal>>

\* onChangeText of the workout duration input: setWorkoutDuration
TypeDuration(text) ==
  /\ FormEnabled /\ WorkoutScreenMounted
  /\ hist.typed < MaxTyped
  /\ workout' = [workout EXCEPT !.workoutDuration = text]
  /\ hist' = [hist EXCEPT !.typed = hist.typed + 1]
  /\ UNCHANGED <<store, calls, now, meal>>

\* Add Exercise pressed
AddExercise ==
  /\ FormEnabled /\ WorkoutScreenMounted
  /\ Len(workout.exercises) < MaxExercises
  /\ IF Trim(workout.currentExercise.name) = <<>>
     THEN workout' = workout
     ELSE workout' = [workout EXCEPT !.exercises = Append(workout.exercises, workout.currentExercise),
                                     !.currentExercise = Exercise(<<>>)]
  /\ UNCHANGED <<store, calls, now, meal, hist>>

\* the remove button of the exercise at index pressed
RemoveExercise(index) ==
  /\ FormEnabled /\ WorkoutScreenMounted
  /\ index \in 0 .. Len(workout.exercises) - 1
  /\ workout' = [workout EXCEPT !.exercises = Splice(workout.exercises, index)]
  /\ UNCHANGED <<store, calls, now, meal, hist>>

\* OK pressed on the Alert of a workout save
DismissWorkoutAlert(p) ==
  /\ calls[p].open /\ calls[p].op = "saveWorkout"
  /\ IF calls[p].notice = "Success"
     THEN /\ workout' = InitialWorkout
          /\ calls' = [calls EXCEPT ![p] = [calls[p] EXCEPT !.open = FALSE]]
     ELSE /\ workout' = workout
          /\ calls' = [calls EXCEPT ![p] = IdleCall]
  /\ UNCHANGED <<store, now, meal, hist>>

\* the Save buttons of the mounted screens
PressSaveMeal == FormEnabled /\ MealScreenMounted /\ SaveMeal(1)
PressSaveWorkout == FormEnabled /\ WorkoutScreenMounted /\ SaveWorkout(1)

NextForms ==
  \/ \E type \in MEAL_TYPES : SelectMealType(type)
  \/ \E text \in NameTexts : TypeName(text)
  \/ \E text \in NumberTexts : TypeCalories(text)
  \/ \E text \in NumberTexts : TypeProtein(text)
  \/ \E text \in NumberTexts : TypeCarbs(text)
  \/ \E text \in NumberTexts : TypeFat(text)
  \/ AddFoodItem
  \/ \E index \in 0 .. MaxFoods - 1 : RemoveFoodItem(index)
  \/ PressSaveMeal
  \/ \E p \in CallIds : DismissMealAlert(p)
  \/ \E type \in EXERCISE_TYPES : SelectType(type)
  \/ \E text \in ExerciseNames : TypeExerciseName(text)
  \/ \E text \in DurationTexts : TypeDuration(text)
  \/ AddExercise
  \/ \E index \in 0 .. MaxExercises - 1 : RemoveExercise(index)
  \/ PressSaveWorkout
  \/ \E p \in CallIds : DismissWorkoutAlert(p)
  \/ \E p \in CallIds : GetItemResolves(p)
  \/ \E p \in CallIds : SetItemResolves(p)

SpecForms == InitMeal /\ [][NextForms]_vars

(***************************************************************************)
(* SpecFrame: the two add functions and the five read functions called in  *)
(* any order and overlapping, every storage call either resolving or       *)
(* rejecting, over the stores of Spec.                                     *)
(***************************************************************************)
NextFrame ==
  \/ \E p \in CallIds : SaveMeal(p)
  \/ \E p \in CallIds : SaveWorkout(p)
  \/ \E p \in CallIds, op \in GetOps \cup ViewOps : CallRead(p, op)
  \/ \E p \in CallIds : GetItemResolves(p)
  \/ \E p \in CallIds : GetItemRejects(p)
  \/ \E p \in CallIds : SetItemResolves(p)
  \/ \E p \in CallIds : SetItemRejects(p)

SpecFrame == Init /\ [][NextFrame]_vars

(***************************************************************************)
(* SpecLoad: loadWorkouts of the exercise screen: today's workouts are     *)
(* read, then the weekly progress, each read resolving or rejecting, over  *)
(* the stored lists and clock readings of SpecViews.                       *)
(***************************************************************************)
\* const todaysWorkouts = await getTodaysExerciseEntries()
LoadTodaysWorkouts ==
  /\ calls[1].pc = "idle"
  /\ CallRead(1, "getTodaysExerciseEntries")

\* const progress = await getWeeklyExerciseProgress(), once the first await
\* has returned
LoadWeeklyProgress ==
  /\ calls[1].pc = "done"
  /\ CallRead(2, "getWeeklyExerciseProgress")

NextLoad ==
  \/ LoadTodaysWorkouts
  \/ LoadWeeklyProgress
  \/ \E p \in CallIds : GetItemResolves(p)
  \/ \E p \in CallIds : GetItemRejects(p)

SpecLoad == InitViews /\ [][NextLoad]_vars

(***************************************************************************)
(* Properties of the storage calls (checked under Spec).                   *)
(***************************************************************************)
\* the entries a stored text holds
Items(text) == IF text.kind = "array" THEN text.items ELSE <<>>

IsPrefix(s, t) == Len(s) <= Len(t) /\ SubSeq(t, 1, Len(s)) = s

Quiet == \A p \in CallIds : ~InFlight(calls[p])

\* C1: the persisted lists are append-only: in a run of calls made one after
\* another, a step that is not the reset leaves every persisted entry in its
\* list at its position, also when a read fails or yields a malformed value.
C1_AppendOnly ==
  [][(~hist'.overlapped /\ ~\E p \in CallIds : MultiRemoveResolves(p))
       => \A k \in Keys : IsPrefix(Items(store[k]), Items(store'[k]))]_vars

\* C2: after N addDietEntry calls made one after another on a store that began
\* empty, with no failure and no reset, getDietEntries returns the N entries
\* passed in, in order and equal field for field.
C2_RoundTrip ==
  (/\ hist.start[DIET_KEY] = Absent
   /\ ~hist.rejected /\ ~hist.cleared /\ ~hist.overlapped)
    => GetEntries(Resolved(store[DIET_KEY])) = Returned(Array(hist.added))

\* C3: no update is lost through the forms' own control flow: with no storage
\* failure and no reset, once every save has completed each save that showed
\* Success has its entry in the persisted list.  (Its failure needs two adds on
\* one key under way at once, which the claim also denies.)
C3_NoLostUpdate ==
  (Quiet /\ ~hist.rejected /\ ~hist.cleared)
    => \A p \in CallIds :
         (calls[p].op \in AddOps /\ calls[p].notice = "Success")
           => \E i \in 1 .. Len(Items(store[calls[p].key])) :
                Items(store[calls[p].key])[i] = StringifyEntry(calls[p].entry)

\* C4: a failed storage write (setItem of an add, multiRemove of the reset)
\* makes the operation throw, leaves both stored texts as they were, and the
\* call issues no further storage request.
C4_Step ==
  \A p \in CallIds :
    /\ (SetItemRejects(p) \/ MultiRemoveRejects(p))
         => (store' = store /\ calls'[p].ret.threw /\ calls'[p].pc = "done")
    /\ (calls[p].pc = "done" => calls'[p] = calls[p])

C4_WriteFailClosed == [][C4_Step]_vars

C4_Witness ==
  \E p, q \in CallIds :
    /\ calls[p].op = "saveMeal" /\ calls[p].pc = "done"
    /\ calls[p].pending # Absent /\ calls[p].ret.threw
    /\ calls[q].op = "clearHealthData" /\ calls[q].pc = "done" /\ calls[q].ret.threw
    /\ store = hist.start /\ Items(store[DIET_KEY]) # <<>>

\* C5: getDietEntries and getExerciseEntries never throw, and return the same
\* empty array when the key is absent, when getItem fails and when the stored
\* text cannot be parsed.
C5_ReadFailOpen ==
  \A p \in CallIds :
    (calls[p].op \in GetOps /\ calls[p].pc = "done")
      => /\ ~calls[p].ret.threw
         /\ calls[p].saw \in {"absent", "rejected", "malformed"}
              => calls[p].ret = Returned(Array(<<>>))

C5_Witness ==
  \E p, q \in CallIds :
    /\ calls[p].op = "getDietEntries" /\ calls[p].pc = "done"
    /\ calls[p].saw = "malformed"
    /\ calls[q].op = "getExerciseEntries" /\ calls[q].pc = "done"
    /\ calls[q].saw = "rejected"
    /\ calls[p].ret = calls[q].ret

\* C6: the step in which clearHealthData's multiRemove succeeds leaves both
\* keys removed at once, so both getDietEntries and getExerciseEntries then
\* return the empty array, whatever the texts held.
C6_ClearEmptiesBoth ==
  [][\A p \in CallIds :
       MultiRemoveResolves(p)
         => /\ \A k \in Keys : store'[k] = Absent
            /\ GetEntries(Resolved(store'[DIET_KEY])) = Returned(Array(<<>>))
            /\ GetEntries(Resolved(store'[EXERCISE_KEY])) = Returned(Array(<<>>))]_vars

C6_Witness ==
  \E p, q \in CallIds :
    /\ calls[p].op = "clearHealthData" /\ calls[p].pc = "done" /\ ~calls[p].ret.threw
    /\ Items(hist.start[DIET_KEY]) # <<>> /\ Items(hist.start[EXERCISE_KEY]) # <<>>
    /\ calls[q].op = "getExerciseEntries" /\ calls[q].pc = "done"
    /\ calls[q].saw = "absent" /\ calls[q].ret = Returned(Array(<<>>))

(***************************************************************************)
(* Properties of the views (checked under SpecViews).                      *)
(***************************************************************************)
\* the instant a stored element is dated at, when its date parses
Parses(e) == e # JsNull /\ NewDate(DateField(e)).valid
InstantOf(e) == NewDate(DateField(e)).t

Scannable(text) ==
  text.kind = "array" /\ \A i \in 1 .. Len(text.items) : text.items[i] # JsNull

OnLocalDayOf(e, t) == Parses(e) /\ LocalDay(InstantOf(e)) = LocalDay(t)

\* the number of hours of local day d
HoursOfDay(d) == LocalToUTC((d + 1) * HoursPerDay) - LocalToUTC(d * HoursPerDay)

TodayCalls ==
  {p \in CallIds : /\ calls[p].op \in {"getTodaysDietEntries", "getTodaysExerciseEntries"}
                   /\ calls[p].pc = "done" /\ calls[p].saw # "rejected"
                   /\ Scannable(store[calls[p].key])}

\* the view returns exactly the stored entries dated on now's local day, in
\* stored order (so one dated earlier that day is in, one whose date does not
\* parse is out)
TodayIsLocalDay ==
  \A p \in TodayCalls :
    calls[p].ret =
      Returned(Array(SelectSeq(Items(store[calls[p].key]),
                               LAMBDA e : OnLocalDayOf(e, now))))

DayBeforeExcluded ==
  \A p \in TodayCalls :
    \A i \in 1 .. Len(calls[p].ret.val.items) :
      calls[p].ret.val.items[i].date # ToISOString(now - HoursPerDay)

\* C7 as stated: the view is the local-day filter, and an entry dated exactly
\* 24 hours before now is never returned.
C7_TodayExact == TodayIsLocalDay /\ DayBeforeExcluded

\* C7 amended: the view is the local-day filter, and an entry dated exactly 24
\* hours before now is not returned when now's local day has at most 24 hours.
C7_TodayLocalDay ==
  /\ TodayIsLocalDay
  /\ HoursOfDay(LocalDay(now)) <= HoursPerDay => DayBeforeExcluded

C7_Witness ==
  \E p \in TodayCalls :
    /\ Len(Items(store[calls[p].key])) = 2
    /\ Items(store[calls[p].key])[1].date = ToISOString(now - HoursPerDay)
    /\ Items(store[calls[p].key])[2].date = ToISOString(SetHoursZero(now))
    /\ SetHoursZero(now) < now
    /\ calls[p].ret.val.items = <<Items(store[calls[p].key])[2]>>

WeeklyCalls ==
  {p \in CallIds : /\ calls[p].op = "getWeeklyExerciseProgress"
                   /\ calls[p].pc = "done" /\ calls[p].saw # "rejected"
                   /\ Scannable(store[calls[p].key])}

Counted(c) == c.strength + c.cardio + c.walking + c.flexibility

\* C8: the weekly progress counts an entry exactly when
\* weekStart <= its date < weekEnd: the entries counted are as many as the
\* stored entries dated in that half-open interval.
C8_WeekHalfOpen ==
  \A p \in WeeklyCalls :
    Counted(calls[p].ret.val) =
      Cardinality({i \in 1 .. Len(Items(store[EXERCISE_KEY])) :
                     /\ Parses(Items(store[EXERCISE_KEY])[i])
                     /\ WeekStart(now) <= InstantOf(Items(store[EXERCISE_KEY])[i])
                     /\ InstantOf(Items(store[EXERCISE_KEY])[i]) < WeekEnd(now)})

C8_Witness ==
  \E p \in WeeklyCalls :
    /\ Len(Items(store[EXERCISE_KEY])) = 2
    /\ Items(store[EXERCISE_KEY])[1].date = ToISOString(WeekEnd(now))
    /\ Items(store[EXERCISE_KEY])[2].date = ToISOString(WeekStart(now))
    /\ Counted(calls[p].ret.val) = 1

\* the read behind the view failed, or gave something that cannot be scanned
Unscannable(c) == c.saw = "rejected" \/ ~Scannable(store[c.key])

\* C9: the views never throw; when the read fails or yields a value that
\* cannot be scanned, the "today" views return the empty array and the
\* weekly progress returns four zero counts.
C9_ViewsFailOpen ==
  \A p \in CallIds :
    (calls[p].op \in ViewOps /\ calls[p].pc = "done")
      => /\ ~calls[p].ret.threw
         /\ Unscannable(calls[p])
              => calls[p].ret = IF calls[p].op = "getWeeklyExerciseProgress"
                                THEN Returned(Counts(0, 0, 0, 0))
                                ELSE Returned(Array(<<>>))

C9_Witness ==
  \E p \in CallIds :
    /\ calls[p].op = "getWeeklyExerciseProgress" /\ calls[p].pc = "done"
    /\ store[EXERCISE_KEY].kind = "array"
    /\ \E i \in 1 .. Len(store[EXERCISE_KEY].items) : store[EXERCISE_KEY].items[i] = JsNull
    /\ \E i \in 1 .. Len(store[EXERCISE_KEY].items) :
         /\ store[EXERCISE_KEY].items[i] # JsNull
         /\ InWeek(store[EXERCISE_KEY].items[i], now)
    /\ calls[p].saw = "array"
    /\ calls[p].ret = Returned(Counts(0, 0, 0, 0))

(***************************************************************************)
(* Properties of the meal form (checked under SpecMeal).                   *)
(***************************************************************************)
\* the sum of field f over persisted food items: a number only when every
\* per-item value is one
RECURSIVE IntSum(_, _)
IntSum(foods, f) ==
  IF foods = <<>> THEN 0
  ELSE foods[Len(foods)][f].v + IntSum(SubSeq(foods, 1, Len(foods) - 1), f)

AllNumbers(foods, f) == \A i \in 1 .. Len(foods) : foods[i][f].k = "fin"

IsSumOf(total, foods, f) == AllNumbers(foods, f) /\ total = Fin(IntSum(foods, f))

TotalsAreSums(e) ==
  /\ IsSumOf(e.totalCalories, e.foods, "calories")
  /\ IsSumOf(e.totalProtein, e.foods, "protein")
  /\ IsSumOf(e.totalCarbs, e.foods, "carbs")
  /\ IsSumOf(e.totalFat, e.foods, "fat")

\* C10: every persisted diet entry has each of its four totals equal to the
\* sum of that value over its persisted food items.
C10_TotalsAreSums ==
  \A i \in 1 .. Len(Items(store[DIET_KEY])) :
    TotalsAreSums(Items(store[DIET_KEY])[i])

\* the part of C10 that holds: a persisted entry whose per-item values are all
\* numbers has the four sums as totals, whatever was added and removed and
\* whatever the form holds by the time the entry is written
C10_FiniteTotalsAreSums ==
  \A i \in 1 .. Len(Items(store[DIET_KEY])) :
    LET e == Items(store[DIET_KEY])[i]
    IN (\A f \in {"calories", "protein", "carbs", "fat"} : AllNumbers(e.foods, f))
         => TotalsAreSums(e)

(***************************************************************************)
(* Properties of the two forms (checked under SpecForms).                  *)
(***************************************************************************)
\* a save that started at this step (p's record was idle and now is not)
Pressed(p) == calls[p].pc = "idle" /\ calls'[p].pc # "idle"

C11_Step ==
  /\ \A p \in CallIds :
       (\/ Pressed(p) /\ calls'[p].op = "saveMeal" /\ Len(meal.foodItems) = 0
        \/ Pressed(p) /\ calls'[p].op = "saveWorkout" /\ Len(workout.exercises) = 0)
         => /\ calls'[p].pc = "done" /\ calls'[p].notice = "Error"
            /\ store' = store
  /\ \A i \in 1 .. Len(Items(store'[DIET_KEY])) :
       Len(Items(store'[DIET_KEY])[i].foods) >= 1
  /\ \A i \in 1 .. Len(Items(store'[EXERCISE_KEY])) :
       Len(Items(store'[EXERCISE_KEY])[i].exercises) >= 1

\* C11: a save pressed with an empty item list ends at once with the error
\* notice, issues no storage call and leaves both persisted lists as they
\* were; every persisted diet entry has at least one food item and every
\* persisted exercise entry at least one exercise.
C11_EmptyRejected == [][C11_Step]_vars

\* Save Meal was pressed on a form with no food item (after some typing) and
\* was answered with the error notice
C11_Witness ==
  /\ calls[1].op = "saveMeal" /\ calls[1].notice = "Error"
  /\ meal.foodItems = <<>> /\ hist.typed > 0

\* the persisted exercise entries
Workouts == Items(store[EXERCISE_KEY])

\* C12: every persisted exercise entry has a duration and a caloriesBurned
\* that are numbers with caloriesBurned = duration * 5.
C12_CaloriesAreFiveTimes ==
  \A i \in 1 .. Len(Workouts) :
    /\ Workouts[i].duration.k = "fin"
    /\ Workouts[i].caloriesBurned = Fin(Workouts[i].duration.v * 5)

\* the part of C12 that holds: the entry saveWorkout hands to addExerciseEntry
\* has caloriesBurned = duration * 5 (Infinity for an Infinity duration), and a
\* persisted entry whose duration is a number has five times it as
\* caloriesBurned
C12_HandedCaloriesAreFiveTimes ==
  /\ \A p \in CallIds :
       calls[p].op = "saveWorkout" /\ calls[p].notice # "Error"
         => \/ /\ calls[p].entry.duration.k = "fin"
               /\ calls[p].entry.caloriesBurned = Fin(calls[p].entry.duration.v * 5)
            \/ /\ calls[p].entry.duration = PosInf
               /\ calls[p].entry.caloriesBurned = PosInf
  /\ \A i \in 1 .. Len(Workouts) :
       Workouts[i].duration.k = "fin"
         => Workouts[i].caloriesBurned = Fin(Workouts[i].duration.v * 5)

\* C13: every persisted exercise entry has a duration that is a number
\* greater than 0.
C13_DurationPositive ==
  \A i \in 1 .. Len(Workouts) :
    Workouts[i].duration.k = "fin" /\ Workouts[i].duration.v > 0

\* the duration texts saveWorkout must turn down: empty or blank, no number,
\* zero, negative
BadDuration(text) ==
  \/ Trim(text) = <<>>
  \/ ParseInt(text).k = "nan"
  \/ ParseInt(text).k = "fin" /\ ParseInt(text).v <= 0

C13_RejectStep ==
  \A p \in CallIds :
    (Pressed(p) /\ calls'[p].op = "saveWorkout" /\ BadDuration(workout.workoutDuration))
      => /\ calls'[p].pc = "done" /\ calls'[p].notice = "Error"
         /\ store' = store

\* the part of C13 that holds: Save Workout pressed with an empty, non-numeric,
\* zero or negative duration text ends at once with the error notice, issues
\* no storage call and leaves the persisted lists as they were; no persisted
\* duration is a number that is 0 or less
C13_BadDurationRejected ==
  [][C13_RejectStep /\ \A i \in 1 .. Len(Items(store'[EXERCISE_KEY])) :
       LET d == Items(store'[EXERCISE_KEY])[i].duration
       IN d.k = "fin" => d.v > 0]_vars

(***************************************************************************)
(* Further properties of the storage calls (checked under Spec).           *)
(***************************************************************************)
\* C14: no two entries of a persisted list share an id.
C14_UniqueIds ==
  \A k \in Keys : \A i, j \in 1 .. Len(Items(store[k])) :
    i # j => Items(store[k])[i].id # Items(store[k])[j].id

(***************************************************************************)
(* Further properties of the meal form (checked under SpecMeal).           *)
(***************************************************************************)
FoodFields == {"calories", "protein", "carbs", "fat"}

\* C15: no food item of a persisted diet entry has a negative calories,
\* protein, carbs or fat value.
C15_NonNegative ==
  \A i \in 1 .. Len(Items(store[DIET_KEY])) :
    \A j \in 1 .. Len(Items(store[DIET_KEY])[i].foods) :
      \A f \in FoodFields :
        LET x == Items(store[DIET_KEY])[i].foods[j][f]
        IN ~(x.k = "fin" /\ x.v < 0)

\* the part of C15 that holds: an added food item goes to the end of the
\* form's list, the items before it staying in place, and the persisted foods
\* are the form's items in the form's order
C15_OrderKept ==
  [][/\ Len(meal'.foodItems) > Len(meal.foodItems)
          => /\ IsPrefix(meal.foodItems, meal'.foodItems)
             /\ meal'.foodItems[Len(meal'.foodItems)] = meal.currentFood
     /\ \A p \in CallIds :
          (calls[p].pc = "setItem" /\ calls'[p].pc = "done" /\ store' # store)
            => LET last == Items(store'[DIET_KEY])[Len(Items(store'[DIET_KEY]))]
               IN last.foods = StringifyEntry(calls[p].entry).foods
                  /\ \A j \in 1 .. Len(last.foods) :
                       last.foods[j].name = calls[p].entry.foods[j].name]_vars

(***************************************************************************)
(* Further properties of the storage calls (checked under Spec).           *)
(***************************************************************************)
\* entry e is an element of the list persisted under key k in store st
Persisted(st, k, e) ==
  \E i \in 1 .. Len(Items(st[k])) : Items(st[k])[i] = StringifyEntry(e)

\* no other save carries an entry equal to that of p
OnlyCarrier(p) ==
  \A q \in CallIds :
    (q # p /\ calls[q].op \in AddOps) => calls[q].entry # calls[p].entry

C16_Step ==
  \A p \in CallIds :
    /\ (calls'[p].notice = "Success" /\ calls[p].notice # "Success")
         => /\ calls[p].op \in AddOps /\ calls[p].pc = "setItem"
            /\ ~calls'[p].ret.threw
            /\ Persisted(store', calls[p].key, calls[p].entry)
    /\ SetItemRejects(p)
         => /\ calls'[p].notice = "Failed"
            /\ store' = store
            /\ OnlyCarrier(p) => ~Persisted(store', calls[p].key, calls[p].entry)
    /\ (calls[p].op \in AddOps /\ calls[p].notice = "Failed")
         => calls'[p].notice # "Success"

\* C16: a save shows the Success notice only at the step in which its add call
\* returns normally, and then its entry is in the persisted list; when the
\* write is rejected the save shows the failure notice, never the Success
\* notice, the store is as it was, and the entry (when no other save carries
\* an equal one) is not in the persisted list.
C16_FaithfulNotice == [][C16_Step]_vars

\* one save showed Success and another one, whose write was rejected, the
\* failure notice
C16_Witness ==
  \E p, q \in CallIds :
    /\ calls[p].op \in AddOps /\ calls[p].notice = "Success"
    /\ calls[q].op \in AddOps /\ calls[q].notice = "Failed"
    /\ calls[q].pending # Absent

(***************************************************************************)
(* Further properties of the two forms (checked under SpecForms).          *)
(***************************************************************************)
\* C17: every persisted diet entry has one of the four meal types and every
\* persisted exercise entry one of the four exercise types.
C17_TypesEnumerated ==
  /\ \A i \in 1 .. Len(Items(store[DIET_KEY])) :
       Items(store[DIET_KEY])[i].mealType \in {"breakfast", "lunch", "dinner", "snacks"}
  /\ \A i \in 1 .. Len(Workouts) :
       Workouts[i].type \in {"strength", "cardio", "walking", "flexibility"}

\* a workout was persisted with a type chosen on the screen (not the one the
\* screen starts with)
C17_Witness ==
  \E i \in 1 .. Len(Workouts) : Workouts[i].type = "flexibility"

(***************************************************************************)
(* Further properties of the views (checked under SpecViews).              *)
(***************************************************************************)
\* t is the first instant of a local calendar day, 00:00 on the local clock
LocalMidnight(t) == GetHours(t) = 0 /\ LocalDay(t - 1) = LocalDay(t) - 1

WeeklyDone ==
  {p \in CallIds : calls[p].op = "getWeeklyExerciseProgress" /\ calls[p].pc = "done"}

\* C18: for the clock reading of a weekly progress call, weekStart is local
\* midnight of the most recent Sunday on or before now, weekEnd is local
\* midnight seven calendar days later, and weekStart <= now < weekEnd.
C18_WeekStartsSunday ==
  \A p \in WeeklyDone :
    /\ LocalMidnight(WeekStart(now))
    /\ GetDay(WeekStart(now)) = 0
    /\ LocalDay(now) - LocalDay(WeekStart(now)) \in 0 .. 6
    /\ LocalMidnight(WeekEnd(now))
    /\ LocalDay(WeekEnd(now)) = LocalDay(WeekStart(now)) + 7
    /\ WeekStart(now) <= now /\ now < WeekEnd(now)

\* the weekly progress was computed on a day whose preceding Sunday lies in
\* the month before
C18_Witness ==
  \E p \in WeeklyDone :
    /\ GetMonth(WeekStart(now)) # GetMonth(now)
    /\ GetDay(now) = 6 /\ GetHours(now) = 23

\* the in-week stored exercise entries of a type
InWeekOfType(type) ==
  {i \in 1 .. Len(Items(store[EXERCISE_KEY])) :
     /\ Parses(Items(store[EXERCISE_KEY])[i])
     /\ WeekStart(now) <= InstantOf(Items(store[EXERCISE_KEY])[i])
     /\ InstantOf(Items(store[EXERCISE_KEY])[i]) < WeekEnd(now)
     /\ Items(store[EXERCISE_KEY])[i].type = type}

\* C19: each count of the weekly progress is the number of in-week stored
\* exercise entries of its type (0 for a type with none), and the four counts
\* add up to the number of in-week entries.
C19_CountsPerType ==
  \A p \in WeeklyCalls :
    /\ calls[p].ret.val.strength = Cardinality(InWeekOfType("strength"))
    /\ calls[p].ret.val.cardio = Cardinality(InWeekOfType("cardio"))
    /\ calls[p].ret.val.walking = Cardinality(InWeekOfType("walking"))
    /\ calls[p].ret.val.flexibility = Cardinality(InWeekOfType("flexibility"))
    /\ Counted(calls[p].ret.val) =
         Cardinality(UNION {InWeekOfType(type) :
                              type \in {"strength", "cardio", "walking", "flexibility"}})

\* a stored list that is full, with two in-week cardio entries, was counted
C19_Witness ==
  \E p \in WeeklyCalls :
    /\ calls[p].ret.val = Counts(0, 2, 0, 0)
    /\ Len(Items(store[EXERCISE_KEY])) = MaxStored

(***************************************************************************)
(* Frame properties (checked under SpecFrame).                             *)
(***************************************************************************)
C20_Step ==
  \A p \in CallIds :
    calls'[p] # calls[p]
      => /\ calls'[p].op = "saveMeal" => store'[EXERCISE_KEY] = store[EXERCISE_KEY]
         /\ calls'[p].op = "saveWorkout" => store'[DIET_KEY] = store[DIET_KEY]
         /\ calls'[p].op \in
              {"getDietEntries", "getExerciseEntries", "getTodaysDietEntries",
               "getTodaysExerciseEntries", "getWeeklyExerciseProgress"}
              => store' = store

\* C20: every step of an addDietEntry leaves the persisted exercise list as it
\* was, every step of an addExerciseEntry leaves the persisted diet list as it
\* was, and every step of one of the five read functions leaves both lists as
\* they were, whether the function succeeds or fails open.
C20_OwnKeyOnly == [][C20_Step]_vars

\* a meal was saved next to an exercise list that holds an entry and is as it
\* began, and a view whose read was rejected has returned
C20_Witness ==
  \E p, q \in CallIds :
    /\ calls[p].op = "saveMeal" /\ calls[p].notice = "Success"
    /\ Len(Items(store[EXERCISE_KEY])) = 1
    /\ store[EXERCISE_KEY] = hist.start[EXERCISE_KEY]
    /\ store[DIET_KEY] # hist.start[DIET_KEY]
    /\ calls[q].op \in ViewOps /\ calls[q].pc = "done" /\ calls[q].saw = "rejected"

(***************************************************************************)
(* Reset against a save in flight (checked under Spec).                    *)
(***************************************************************************)
\* C21: once a reset has resolved and every call has completed, no entry that
\* was persisted when the run began is in either list.
C21_ResetIsFinal ==
  (hist.cleared /\ Quiet)
    => \A k \in Keys : \A i \in 1 .. Len(Items(hist.start[k])) :
         \A j \in 1 .. Len(Items(store[k])) :
           Items(store[k])[j] # Items(hist.start[k])[i]

(***************************************************************************)
(* Properties of loadWorkouts (checked under SpecLoad).                    *)
(***************************************************************************)
\* loadWorkouts has both its results
Loaded == calls[1].pc = "done" /\ calls[2].pc = "done"

\* the entries of a type among today's workouts as returned
TodaysOfType(type) ==
  {i \in 1 .. Len(calls[1].ret.val.items) : calls[1].ret.val.items[i].type = type}

DailyWithinWeekly ==
  /\ Cardinality(TodaysOfType("strength")) <= calls[2].ret.val.strength
  /\ Cardinality(TodaysOfType("cardio")) <= calls[2].ret.val.cardio
  /\ Cardinality(TodaysOfType("walking")) <= calls[2].ret.val.walking
  /\ Cardinality(TodaysOfType("flexibility")) <= calls[2].ret.val.flexibility

====
